---- MODULE Spec2Model ----
(***************************************************************************)
(* cw1-whitelist: an admin-gated message proxy.                            *)
(*                                                                         *)
(* Storage holds two records: the `admins` map (keys are validated         *)
(* addresses, iterated in ascending key order) and the `mutable` item.     *)
(* Strings are modelled as the naturals 1..NumStrings with their usual     *)
(* order standing for the lexicographic order of strings.                  *)
(***************************************************************************)
EXTENDS Naturals, Integers, Sequences, FiniteSets, TLC

\* ---------------------------------------------------------------- bounds
NumStrings == 3     \* strings a caller can pass: 1..NumStrings
MaxLen     == 2     \* longest admins list passed to a handler
MaxMsgs    == 2     \* longest msgs vector passed to execute
MergeStrings == 5   \* strings of the merge-pass specification: 1..MergeStrings
MergeLen     == 3   \* longest admins list of the merge-pass specification

Strings == 1..NumStrings
\* two CosmosMsg values, as in the tests: a BankMsg::Send and a WasmMsg::Execute
Msgs    == {"bank_send", "wasm_execute"}

RECURSIVE SeqsUpTo(_, _)
SeqsUpTo(S, n) ==
    IF n = 0 THEN {<<>>}
    ELSE LET shorter == SeqsUpTo(S, n - 1)
         IN  shorter \cup {Append(s, x) : s \in {t \in shorter : Len(t) = n - 1}, x \in S}

AdminLists == SeqsUpTo(Strings, MaxLen)
MsgLists   == SeqsUpTo(Msgs, MaxMsgs)

Range(s) == {s[i] : i \in 1..Len(s)}

\* ---------------------------------------------------------------- state
VARIABLES
    phase,            \* "new" after new(), "live" after a successful instantiate, "failed" after a failed one
    contract_version, \* cw2 record written by set_contract_version
    admins,           \* key set of Map "admins"
    mutable,          \* Item "mutable": <<>> while never saved, else <<b>>
    op,               \* last entry point that ran
    sender,           \* its info.sender (or the `sender` argument of can_execute); 0 when none
    input,            \* its list argument (admins or msgs)
    arg_mutable,      \* the `mutable` argument of instantiate
    result,           \* "Ok" or the error it returned
    resp,             \* what it returned on success
    old_admins,       \* key set of Map "admins" when the entry point started
    old_mutable,      \* Item "mutable" when the entry point started
    to_remove,        \* update_admins: the collected to_remove vector
    low_idxs,         \* update_admins: value of low_idx at start and after each filtered key
    admin_writes,     \* writes to Map "admins" done by the entry point, in order
    ever_admins       \* every address that has been a key of Map "admins" so far

vars == <<phase, contract_version, admins, mutable, op, sender, input, arg_mutable,
          result, resp, old_admins, old_mutable, to_remove, low_idxs, admin_writes,
          ever_admins>>

\* ---------------------------------------------------------------- helpers
\* deps.api.addr_validate: Ok(Addr(s)) for a well-formed address, Err otherwise.
\* One string in three stands for a malformed address (2, 5, ..), so that a
\* malformed entry can sort before, between and after well-formed ones.
addr_validate(s) == [ok |-> s % 3 # 2, addr |-> s]

\* Addr::unchecked
Addr_unchecked(s) == s

\* Item::load on an item that has been saved
load(item) == item[1]

\* mutant of keys: the keys come in descending order
RECURSIVE keys_descending(_)
keys_descending(store) ==
    IF store = {} THEN <<>>
    ELSE LET m == CHOOSE x \in store : \A y \in store : x >= y
         IN  <<m>> \o keys_descending(store \ {m})

\* Map::keys(.., None, None, Order::Ascending): the keys in ascending order
RECURSIVE keys(_)
keys(store) ==
    IF store = {} THEN <<>>
    ELSE LET m == CHOOSE x \in store : \A y \in store : x <= y
         IN  <<m>> \o keys(store \ {m})

\* insertion of x into an ascending sequence
RECURSIVE Insert(_, _)
Insert(s, x) ==
    IF s = <<>> THEN <<x>>
    ELSE IF x <= Head(s) THEN <<x>> \o s
    ELSE <<Head(s)>> \o Insert(Tail(s), x)

\* Vec::sort_unstable: ascending, duplicates kept
RECURSIVE sort_unstable(_)
sort_unstable(s) ==
    IF s = <<>> THEN <<>>
    ELSE Insert(sort_unstable(Tail(s)), Head(s))

\* slice[low..] with a 0-based low
Suffix(s, low) == SubSeq(s, low + 1, Len(s))

\* slice::binary_search on an ascending slice: Ok(i) for any i with slice[i] = x
\* (which match is returned is unspecified), else Err(insertion point); 0-based.
binary_search(slice, x) ==
    LET hits == {i \in 1..Len(slice) : slice[i] = x}
    IN  IF hits # {}
        THEN {[ok |-> TRUE, idx |-> i - 1] : i \in hits}
        ELSE {[ok |-> FALSE, idx |-> Cardinality({i \in 1..Len(slice) : slice[i] < x})]}

\* is_admin
is_admin(addr) == addr \in admins

\* mutant of filter: a key met after the target list is exhausted is kept
filter_keep_past_end(sorted, low, addr) ==
    IF low >= Len(sorted)
    THEN {[remove |-> FALSE, low_idx |-> low]}
    ELSE {[remove |-> ~r.ok, low_idx |-> r.idx] : r \in binary_search(Suffix(sorted, low), addr)}

\* mutant of filter: the cursor is moved past the index the search returned
filter_skips(sorted, low, addr) ==
    IF low >= Len(sorted)
    THEN {[remove |-> TRUE, low_idx |-> low]}
    ELSE {[remove |-> ~r.ok, low_idx |-> low + r.idx + 1]
            : r \in binary_search(Suffix(sorted, low), addr)}

\* The filter closure of update_admins for one key addr, with the captured
\* low_idx = low: whether the key is collected into to_remove, and the new low_idx.
filter(sorted, low, addr) ==
    IF low >= Len(sorted)
    THEN {[remove |-> TRUE, low_idx |-> low]}
    ELSE {[remove |-> ~r.ok, low_idx |-> r.idx] : r \in binary_search(Suffix(sorted, low), addr)}

\* keys(..).filter(..).collect() from key number i of ks on; rem and trace accumulate
\* the collected vector and the successive values of low_idx.  The result is the set
\* of possible outcomes.
RECURSIVE filter_keys(_, _, _, _, _, _)
filter_keys(ks, sorted, i, low, rem, trace) ==
    IF i > Len(ks) THEN {[to_remove |-> rem, low_idxs |-> trace]}
    ELSE UNION { filter_keys(ks, sorted, i + 1, f.low_idx,
                             IF f.remove THEN Append(rem, ks[i]) ELSE rem,
                             Append(trace, f.low_idx))
                 : f \in filter(sorted, low, ks[i]) }

\* number of entries a `for admin in list { addr_validate(admin)?; save }` loop
\* saves before it returns: all of them, or those before the first invalid one
RECURSIVE saved_count(_)
saved_count(list) ==
    IF list = <<>> THEN 0
    ELSE IF ~addr_validate(Head(list)).ok THEN 0
    ELSE 1 + saved_count(Tail(list))

Removes(s) == [i \in 1..Len(s) |-> [kind |-> "remove", key |-> s[i]]]
\* mutant of Saves: an entry that is already a key of the map is not saved again
Saves_only_new(s) ==
    LET new == SelectSeq(s, LAMBDA x : addr_validate(x).addr \notin admins)
    IN  [i \in 1..Len(new) |-> [kind |-> "save", key |-> addr_validate(new[i]).addr]]

Saves(s)   == [i \in 1..Len(s) |-> [kind |-> "save", key |-> addr_validate(s[i]).addr]]

\* SubMsg::new
SubMsg_new(m) == [id |-> 0, msg |-> m, reply_on |-> "never"]

\* Response::new(), add_messages, add_attribute
Response_new == [messages |-> <<>>, attributes |-> <<>>]

\* mutant of add_messages: the messages are pushed in front, so they come out reversed
add_messages_reversed(r, ms) ==
    [r EXCEPT !.messages = [i \in 1..Len(ms) |-> SubMsg_new(ms[Len(ms) + 1 - i])] \o @]

add_messages(r, ms) ==
    [r EXCEPT !.messages = @ \o [i \in 1..Len(ms) |-> SubMsg_new(ms[i])]]

add_attribute(r, k, v) == [r EXCEPT !.attributes = Append(@, <<k, v>>)]

\* mutant of update_admins_guard: the sender must be in the new list
guard_checks_target(who, list) ==
    IF who \notin Range(list) THEN "Unauthorized"
    ELSE IF ~load(mutable) THEN "ContractFrozen"
    ELSE "Ok"

\* mutant of update_admins_guard: the frozen check is missing
guard_without_frozen(who, list) ==
    IF ~is_admin(who) THEN "Unauthorized" ELSE "Ok"

\* mutant of update_admins_guard: the frozen check comes first
guard_frozen_first(who, list) ==
    IF ~load(mutable) THEN "ContractFrozen"
    ELSE IF ~is_admin(who) THEN "Unauthorized"
    ELSE "Ok"

\* mutant of update_admins_guard: the list is validated before the frozen check
guard_validate_first(who, list) ==
    IF ~is_admin(who) THEN "Unauthorized"
    ELSE IF \E i \in 1..Len(list) : ~addr_validate(list[i]).ok THEN "Std"
    ELSE IF ~load(mutable) THEN "ContractFrozen"
    ELSE "Ok"

\* the early returns of update_admins: the error returned before the merge pass,
\* or "Ok" when the handler goes on
update_admins_guard(who, list) ==
    IF ~is_admin(who) THEN "Unauthorized"
    ELSE IF ~load(mutable) THEN "ContractFrozen"
    ELSE "Ok"

\* mutant of instantiate_outcome: the flag argument is ignored, the item is saved true
instantiate_always_mutable(list, flag) ==
    LET n == saved_count(list)
    IN  [result  |-> IF n < Len(list) THEN "Std" ELSE "Ok",
         saved   |-> SubSeq(list, 1, n),
         mutable |-> IF n < Len(list) THEN mutable ELSE <<TRUE>>]

\* instantiate(admins = list, mutable = flag): its result, the entries its loop
\* saves (in list order, up to the first invalid one) and the Item "mutable" it leaves
instantiate_outcome(list, flag) ==
    LET n == saved_count(list)
    IN  [result  |-> IF n < Len(list) THEN "Std" ELSE "Ok",
         saved   |-> SubSeq(list, 1, n),
         mutable |-> IF n < Len(list) THEN mutable ELSE <<flag>>]

\* mutant of freeze_outcome: the item is saved before the sender is checked
freeze_saves_first(who) ==
    IF ~is_admin(who)
    THEN [result |-> "Unauthorized", mutable |-> <<FALSE>>, resp |-> Response_new]
    ELSE [result |-> "Ok", mutable |-> <<FALSE>>,
          resp |-> add_attribute(Response_new, "action", "freeze")]

\* mutant of freeze_outcome: the flag is toggled instead of cleared
freeze_toggles(who) ==
    IF ~is_admin(who)
    THEN [result |-> "Unauthorized", mutable |-> mutable, resp |-> Response_new]
    ELSE [result |-> "Ok", mutable |-> <<~load(mutable)>>,
          resp |-> add_attribute(Response_new, "action", "freeze")]

\* mutant of freeze_outcome: freezing a frozen contract is an error
freeze_rejects_frozen(who) ==
    IF ~is_admin(who)
    THEN [result |-> "Unauthorized", mutable |-> mutable, resp |-> Response_new]
    ELSE IF ~load(mutable)
    THEN [result |-> "ContractFrozen", mutable |-> mutable, resp |-> Response_new]
    ELSE [result |-> "Ok", mutable |-> <<FALSE>>,
          resp |-> add_attribute(Response_new, "action", "freeze")]

\* mutant of freeze_outcome: the sender is not checked
freeze_unchecked(who) ==
    [result |-> "Ok", mutable |-> <<FALSE>>,
     resp |-> add_attribute(Response_new, "action", "freeze")]

\* freeze for info.sender = who: its result, the Item "mutable" it leaves, its response
freeze_outcome(who) ==
    IF ~is_admin(who)
    THEN [result |-> "Unauthorized", mutable |-> mutable, resp |-> Response_new]
    ELSE [result |-> "Ok", mutable |-> <<FALSE>>,
          resp |-> add_attribute(Response_new, "action", "freeze")]

\* Cw1::execute for info.sender = who: its result and its response
execute_outcome(who, msgs) ==
    IF ~is_admin(who)
    THEN [result |-> "Unauthorized", resp |-> Response_new]
    ELSE [result |-> "Ok",
          resp |-> add_attribute(add_messages(Response_new, msgs), "action", "execute")]

\* query admin_list: the AdminListResponse
AdminListResponse == [admins |-> keys(admins), mutable |-> load(mutable)]

\* mutant of CanExecuteResp: bank messages are open to everybody
CanExecuteResp_open_bank(who, msg) ==
    [can_execute |-> is_admin(Addr_unchecked(who)) \/ msg = "bank_send"]

\* Cw1::can_execute: the CanExecuteResp for (sender, _msg)
CanExecuteResp(who, msg) == [can_execute |-> is_admin(Addr_unchecked(who))]

\* bookkeeping common to all entry points
Call(o, who, in, flag, res, rsp) ==
    /\ op' = o
    /\ sender' = who
    /\ input' = in
    /\ arg_mutable' = flag
    /\ result' = res
    /\ resp' = rsp
    /\ old_admins' = admins
    /\ old_mutable' = mutable

NoMerge == to_remove' = <<>> /\ low_idxs' = <<>>

NoAdminWrite == admins' = admins /\ admin_writes' = <<>> /\ ever_admins' = ever_admins

\* ---------------------------------------------------------------- Init
Init ==
    /\ phase = "new"
    /\ contract_version = <<>>
    /\ admins = {}
    /\ mutable = <<>>
    /\ op = "new"
    /\ sender = 0
    /\ input = <<>>
    /\ arg_mutable = FALSE
    /\ result = "Ok"
    /\ resp = Response_new
    /\ old_admins = {}
    /\ old_mutable = <<>>
    /\ to_remove = <<>>
    /\ low_idxs = <<>>
    /\ admin_writes = <<>>
    /\ ever_admins = {}

\* ---------------------------------------------------------------- entry points
\* instantiate runs once, on the fresh storage; when it returns an error the
\* contract never comes to life and no other entry point runs.
instantiate ==
    /\ phase = "new"
    /\ \E list \in AdminLists, flag \in BOOLEAN :
         LET out == instantiate_outcome(list, flag)
         IN  /\ contract_version' = <<"cw1-whitelist">>
             /\ admins' = admins \cup {addr_validate(a).addr : a \in Range(out.saved)}
             /\ ever_admins' = ever_admins \cup admins'
             /\ admin_writes' = Saves(out.saved)
             /\ mutable' = out.mutable
             /\ phase' = (IF out.result = "Ok" THEN "live" ELSE "failed")
             /\ Call("instantiate", 0, list, flag, out.result, Response_new)
             /\ NoMerge

freeze ==
    /\ phase = "live"
    /\ \E who \in Strings :
         LET out == freeze_outcome(who)
         IN  /\ mutable' = out.mutable
             /\ Call("freeze", who, <<>>, FALSE, out.result, out.resp)
             /\ NoAdminWrite
             /\ NoMerge
             /\ UNCHANGED <<phase, contract_version>>

\* update_admins with info.sender drawn from callers and the list from lists
update_admins_on(callers, lists) ==
    \E who \in callers, list \in lists :
         LET early == update_admins_guard(who, list)
         IN  /\ IF early # "Ok"
                THEN /\ NoAdminWrite
                     /\ NoMerge
                     /\ Call("update_admins", who, list, FALSE, early, Response_new)
                ELSE LET sorted == sort_unstable(list)
                         n      == saved_count(sorted)
                         saved  == SubSeq(sorted, 1, n)
                     IN  \E pass \in filter_keys(keys(admins), sorted, 1, 0, <<>>, <<0>>) :
                           /\ to_remove' = pass.to_remove
                           /\ low_idxs' = pass.low_idxs
                           /\ admins' = (admins \ Range(pass.to_remove))
                                          \cup {addr_validate(a).addr : a \in Range(saved)}
                           /\ ever_admins' = ever_admins \cup admins'
                           /\ admin_writes' = Removes(pass.to_remove) \o Saves(saved)
                           /\ IF n < Len(sorted)
                              THEN Call("update_admins", who, list, FALSE, "Std", Response_new)
                              ELSE Call("update_admins", who, list, FALSE, "Ok",
                                        add_attribute(Response_new, "action", "update_admins"))
             /\ UNCHANGED <<phase, contract_version, mutable>>

update_admins ==
    /\ phase = "live"
    /\ update_admins_on(Strings, AdminLists)

admin_list ==
    /\ phase = "live"
    /\ Call("admin_list", 0, <<>>, FALSE, "Ok", AdminListResponse)
    /\ NoAdminWrite
    /\ NoMerge
    /\ UNCHANGED <<phase, contract_version, mutable>>

\* mutant of execute: the handler also saves the item, as freeze does
execute_saves_flag ==
    /\ phase = "live"
    /\ \E who \in Strings, msgs \in MsgLists :
         LET out == execute_outcome(who, msgs)
         IN  /\ Call("execute", who, msgs, FALSE, out.result, out.resp)
             /\ NoAdminWrite
             /\ NoMerge
             /\ mutable' = (IF out.result = "Ok" THEN <<FALSE>> ELSE mutable)
             /\ UNCHANGED <<phase, contract_version>>

execute ==
    /\ phase = "live"
    /\ \E who \in Strings, msgs \in MsgLists :
         LET out == execute_outcome(who, msgs)
         IN  /\ Call("execute", who, msgs, FALSE, out.result, out.resp)
             /\ NoAdminWrite
             /\ NoMerge
             /\ UNCHANGED <<phase, contract_version, mutable>>

can_execute ==
    /\ phase = "live"
    /\ \E who \in Strings, msg \in Msgs :
         /\ Call("can_execute", who, <<msg>>, FALSE, "Ok", CanExecuteResp(who, msg))
         /\ NoAdminWrite
         /\ NoMerge
         /\ UNCHANGED <<phase, contract_version, mutable>>

Next ==
    \/ instantiate
    \/ freeze
    \/ update_admins
    \/ admin_list
    \/ execute
    \/ can_execute

Spec == Init /\ [][Next]_vars

\* ---------------------------------------------------------------- merge pass
\* The merge pass of update_admins on larger inputs: one update_admins on a
\* contract just instantiated, mutable, with any set of valid addresses.
MergeAddrs == 1..MergeStrings

InitMerge ==
    \E A \in SUBSET {a \in MergeAddrs : addr_validate(a).ok} :
       /\ phase = "live"
       /\ contract_version = <<"cw1-whitelist">>
       /\ admins = A
       /\ mutable = <<TRUE>>
       /\ op = "instantiate"
       /\ sender = 0
       /\ input = keys(A)
       /\ arg_mutable = TRUE
       /\ result = "Ok"
       /\ resp = Response_new
       /\ old_admins = {}
       /\ old_mutable = <<>>
       /\ to_remove = <<>>
       /\ low_idxs = <<>>
       /\ admin_writes = Saves(keys(A))
       /\ ever_admins = A

update_admins_first ==
    /\ phase = "live"
    /\ op = "instantiate"
    /\ update_admins_on(MergeAddrs, SeqsUpTo(MergeAddrs, MergeLen))

NextMerge == update_admins_first

SpecMerge == InitMerge /\ [][NextMerge]_vars

\* ---------------------------------------------------------------- properties
AllValid(list) == \A i \in 1..Len(list) : addr_validate(list[i]).ok

\* C1: exact reconciliation.  update_admins called by a member of the admin set on a
\* mutable contract with a list of valid addresses (any length, order, multiplicity
\* and overlap with the current set) returns Ok, and the admins then returned by
\* admin_list are exactly the entries of the list.
C1_ExactReconciliation ==
    (op = "update_admins" /\ sender \in old_admins /\ old_mutable = <<TRUE>> /\ AllValid(input))
        => /\ result = "Ok"
           /\ Range(AdminListResponse.admins) = Range(input)
           /\ admins = Range(input)

\* a successful call whose list names one address twice, removes a member, adds
\* one and leaves out its own caller
C1_Witness ==
    /\ op = "update_admins" /\ result = "Ok"
    /\ sender \in old_admins /\ old_mutable = <<TRUE>>
    /\ Len(input) = 2 /\ input[1] = input[2]
    /\ old_admins \ Range(input) # {}
    /\ Range(input) \ old_admins # {}
    /\ sender \notin Range(input)
    /\ admins = Range(input)

\* C2: once the mutable flag is false no step changes the admin set.
C2_FrozenAdminsFixed ==
    [][mutable = <<FALSE>> => admins' = admins]_vars

\* an admin's update_admins with a list that differs from the admin set has been
\* turned down on a frozen contract
C2_Witness ==
    /\ op = "update_admins" /\ old_mutable = <<FALSE>>
    /\ sender \in old_admins
    /\ AllValid(input) /\ Range(input) # old_admins
    /\ admins = old_admins

\* C3 as stated: once the flag is false every update_admins, by any caller, fails
\* with ContractFrozen.
C3_AlwaysFrozenError ==
    (op = "update_admins" /\ old_mutable = <<FALSE>>) => result = "ContractFrozen"

\* C3 amended: once the flag is false every update_admins fails, with ContractFrozen
\* when the caller is in the admin set and with Unauthorized when it is not.
C3_FrozenRejectsAll ==
    (op = "update_admins" /\ old_mutable = <<FALSE>>)
        => /\ result = (IF sender \in old_admins THEN "ContractFrozen" ELSE "Unauthorized")
           /\ admins = old_admins

\* an admin has been refused with ContractFrozen
C3_Witness ==
    /\ op = "update_admins" /\ old_mutable = <<FALSE>>
    /\ sender \in old_admins /\ result = "ContractFrozen"

\* C4: the flag is one-way.  In a live contract no step takes it from false to true, and
\* the only step that changes it is a successful freeze taking it from true to false.
C4_FlagOneWay ==
    [][phase = "live" =>
          /\ (mutable = <<FALSE>> => mutable' = <<FALSE>>)
          /\ (mutable' # mutable =>
                 /\ mutable = <<TRUE>> /\ mutable' = <<FALSE>>
                 /\ op' = "freeze" /\ result' = "Ok")]_vars

\* a freeze has run on a frozen contract and the flag is still false
C4_Witness ==
    /\ old_mutable = <<FALSE>> /\ mutable = <<FALSE>>
    /\ op = "freeze" /\ result = "Ok"

\* C5: update_admins reports its errors in a fixed precedence: Unauthorized for a
\* caller outside the admin set, else ContractFrozen when the flag is false, else
\* the validation error when some entry of the list is invalid, else Ok.
C5_ErrorPrecedence ==
    op = "update_admins"
        => result = (IF sender \notin old_admins THEN "Unauthorized"
                     ELSE IF old_mutable = <<FALSE>> THEN "ContractFrozen"
                     ELSE IF ~AllValid(input) THEN "Std"
                     ELSE "Ok")

\* an admin passing an invalid entry to a frozen contract has got ContractFrozen
C5_Witness ==
    /\ op = "update_admins" /\ old_mutable = <<FALSE>>
    /\ sender \in old_admins /\ ~AllValid(input)
    /\ result = "ContractFrozen"

\* C6: an update_admins that fails on an invalid entry leaves the admin set as it was.
C6_InvalidLeavesAdmins ==
    (op = "update_admins" /\ result = "Std") => admins = old_admins

\* C7: freeze called by a member of the admin set returns Ok and leaves the flag
\* false, whether the flag was true or already false.
C7_IdempotentFreeze ==
    (op = "freeze" /\ sender \in old_admins)
        => /\ result = "Ok"
           /\ mutable = <<FALSE>>
           /\ resp.attributes = << <<"action", "freeze">> >>

\* a second freeze by an admin has succeeded
C7_Witness ==
    /\ op = "freeze" /\ sender \in old_admins
    /\ old_mutable = <<FALSE>> /\ result = "Ok" /\ mutable = <<FALSE>>

\* C8: freeze called by an address outside the admin set, a former admin included,
\* fails with Unauthorized and the flag keeps its value.
C8_FreezeUnauthorized ==
    (op = "freeze" /\ sender \notin old_admins)
        => /\ result = "Unauthorized"
           /\ mutable = old_mutable

\* a former admin, removed by update_admins, has been refused on a mutable contract
C8_Witness ==
    /\ op = "freeze" /\ result = "Unauthorized"
    /\ sender \in ever_admins /\ sender \notin old_admins
    /\ old_mutable = <<TRUE>> /\ mutable = <<TRUE>>

\* C9: execute returns Ok iff the sender is in the admin set, whatever the flag; on Ok
\* the response carries the input messages, one SubMsg each, in the same order and
\* number, and the attribute action=execute; otherwise it fails with Unauthorized
\* and returns no message.
C9_ExecuteForwards ==
    op = "execute"
        => /\ (result = "Ok") <=> (sender \in old_admins)
           /\ result = "Ok" =>
                 /\ Len(resp.messages) = Len(input)
                 /\ \A i \in 1..Len(input) : resp.messages[i] = SubMsg_new(input[i])
                 /\ resp.attributes = << <<"action", "execute">> >>
           /\ result # "Ok" => (result = "Unauthorized" /\ resp.messages = <<>>)

\* an admin of a frozen contract has forwarded two different messages
C9_Witness ==
    /\ op = "execute" /\ result = "Ok" /\ old_mutable = <<FALSE>>
    /\ Len(input) = 2 /\ input[1] # input[2]
    /\ Len(resp.messages) = 2

\* C10: in every state of a live contract, for every address p and message a,
\* is_admin(p) holds iff p is among the admins admin_list returns, and
\* can_execute(p, a) answers is_admin(p); the recorded query answers agree.
C10_GateConsistency ==
    phase = "live"
        => /\ \A p \in Strings :
                /\ is_admin(p) <=> (\E i \in 1..Len(AdminListResponse.admins) :
                                       AdminListResponse.admins[i] = p)
                /\ \A a \in Msgs : CanExecuteResp(p, a).can_execute = is_admin(p)
           /\ op = "can_execute" => resp.can_execute = (sender \in old_admins)
           /\ op = "admin_list" => Range(resp.admins) = old_admins

\* can_execute has answered yes to an admin and the admin set is not empty
C10_Witness ==
    /\ op = "can_execute" /\ resp.can_execute /\ sender \in admins
    /\ input = <<"bank_send">>
    /\ Strings \ admins # {}

\* C11 as stated: an instantiate that fails on an invalid entry has inserted no entry
\* of its list into the admin set and has not written the mutable item.
C11_FailedInstantiateNoEffect ==
    (op = "instantiate" /\ result = "Std")
        => /\ admins = {}
           /\ admin_writes = <<>>
           /\ mutable = <<>>

\* C12: after a successful instantiate(admins, mutable) the admin set is exactly the
\* set of entries of the list and the item equals the mutable argument; when that
\* argument is false, no update_admins, by any sender with any list, gets past the
\* early returns.
C12_InstantiateSetsState ==
    (op = "instantiate" /\ result = "Ok")
        => /\ admins = Range(input)
           /\ Range(AdminListResponse.admins) = Range(input)
           /\ Len(AdminListResponse.admins) = Cardinality(Range(input))
           /\ mutable = <<arg_mutable>>
           /\ AdminListResponse.mutable = arg_mutable
           /\ ~arg_mutable =>
                 \A who \in Strings, list \in AdminLists :
                     update_admins_guard(who, list) \in {"Unauthorized", "ContractFrozen"}

\* a contract instantiated frozen from a list naming one address twice
C12_Witness ==
    /\ op = "instantiate" /\ result = "Ok" /\ ~arg_mutable
    /\ Len(input) = 2 /\ input[1] = input[2]
    /\ admins = {input[1]} /\ mutable = <<FALSE>>

\* C13: in every state of a live contract admin_list returns the members of the admin
\* set in strictly ascending order, each once, with the current value of the flag.
C13_AdminListAscending ==
    phase = "live"
        => LET r == AdminListResponse
           IN  /\ \A i \in 1..(Len(r.admins) - 1) : r.admins[i] < r.admins[i + 1]
               /\ Range(r.admins) = admins
               /\ r.mutable = load(mutable)
               /\ op = "admin_list" => resp = r

\* after an update_admins with a list in descending order the answer is ascending
C13_Witness ==
    /\ op = "update_admins" /\ result = "Ok"
    /\ Len(input) = 2 /\ input[1] > input[2]
    /\ Len(AdminListResponse.admins) = 2
    /\ AdminListResponse.admins[1] < AdminListResponse.admins[2]

\* C14: whenever the merge pass of update_admins has run, the members it collected
\* for removal are exactly the current members that are not entries of the list,
\* each once; a member that is an entry of the list is never removed.
C14_RemovedExactly ==
    (op = "update_admins" /\ low_idxs # <<>>)
        => /\ Range(to_remove) = old_admins \ Range(input)
           /\ Len(to_remove) = Cardinality(Range(to_remove))
           /\ \A i \in 1..Len(admin_writes) :
                 admin_writes[i].kind = "remove" => admin_writes[i].key \notin Range(input)

\* three members met a list of three entries, one of them twice: some are kept,
\* some removed
C14_Witness ==
    /\ op = "update_admins" /\ result = "Ok"
    /\ Cardinality(old_admins) = 3 /\ Len(input) = 3
    /\ Cardinality(Range(input)) = 2
    /\ to_remove # <<>>
    /\ Range(input) \cap old_admins # {}

\* C15 as stated: over the keys of one merge pass low_idx never decreases.
C15_CursorMonotonic ==
    op = "update_admins"
        => \A i \in 1..(Len(low_idxs) - 1) : low_idxs[i] <= low_idxs[i + 1]

\* occurrences of x in a sequence, and writes of one kind to one key
Count(seq, x) == Cardinality({i \in 1..Len(seq) : seq[i] = x})

Writes(kind, key) ==
    Cardinality({i \in 1..Len(admin_writes) :
                    admin_writes[i].kind = kind /\ admin_writes[i].key = key})

\* C16 as stated: a successful update_admins writes (saves or removes) only keys
\* whose membership differs between the old admin set and the list.
C16_NoRedundantWrites ==
    (op = "update_admins" /\ result = "Ok")
        => \A i \in 1..Len(admin_writes) :
              (admin_writes[i].key \in old_admins) # (admin_writes[i].key \in Range(input))

\* C16 amended: a successful update_admins removes exactly the members that are not
\* entries of the list, each once, then saves every entry of the list, once per
\* occurrence, members already present included; a member that is an entry of the
\* list is never removed.
C16_WritesOfUpdate ==
    (op = "update_admins" /\ result = "Ok")
        => LET gone == old_admins \ Range(input)
               nr   == Cardinality(gone)
           IN  /\ Len(admin_writes) = nr + Len(input)
               /\ \A i \in 1..Len(admin_writes) :
                     admin_writes[i].kind = (IF i <= nr THEN "remove" ELSE "save")
               /\ \A a \in old_admins \cup Range(input) :
                     /\ Writes("remove", a) = (IF a \in gone THEN 1 ELSE 0)
                     /\ Writes("save", a) = Count(input, a)

\* a member that stays has been saved again while another one was removed
C16_Witness ==
    /\ op = "update_admins" /\ result = "Ok"
    /\ \E a \in old_admins \cap Range(input) : Writes("save", a) = 1
    /\ \E a \in old_admins \ Range(input) : Writes("remove", a) = 1
    /\ \E a \in Range(input) \ old_admins : Writes("save", a) = 1

\* C17: a freeze, update_admins or execute that fails with Unauthorized or
\* ContractFrozen leaves the admin set and the mutable item as they were.
C17_RejectedCallNoEffect ==
    (op \in {"freeze", "update_admins", "execute"}
       /\ result \in {"Unauthorized", "ContractFrozen"})
        => /\ admins = old_admins
           /\ mutable = old_mutable
           /\ admin_writes = <<>>

\* a stranger's freeze has been turned down on a mutable contract that has admins
C17_Witness ==
    /\ op = "freeze" /\ result = "Unauthorized"
    /\ old_admins # {} /\ sender \notin ever_admins
    /\ old_mutable = <<TRUE>> /\ mutable = <<TRUE>>

\* C18: each operation changes only its own record: a successful freeze leaves the
\* admin set alone, a successful update_admins leaves the mutable item alone, and
\* execute (successful or not), can_execute and admin_list leave both alone.
C18_Frame ==
    /\ (op = "freeze" /\ result = "Ok") => (admins = old_admins /\ admin_writes = <<>>)
    /\ (op = "update_admins" /\ result = "Ok") => mutable = old_mutable
    /\ op \in {"execute", "can_execute", "admin_list"}
          => (admins = old_admins /\ admin_writes = <<>> /\ mutable = old_mutable)

\* an admin has executed messages on a mutable contract, which is still mutable
C18_Witness ==
    /\ op = "execute" /\ result = "Ok" /\ input # <<>>
    /\ old_mutable = <<TRUE>> /\ mutable = <<TRUE>>
    /\ admins = old_admins /\ admins # {}

\* C19: authorization looks at the admin set as it is before the call, so an admin's
\* update_admins on a mutable contract with a valid list succeeds even when the list
\* leaves the admin out or is empty; and once the admin set of a live contract is
\* empty, every freeze, update_admins and execute fails with Unauthorized and
\* neither the admin set nor the mutable item changes again.
C19_EmptySetAbsorbing ==
    [][/\ (op' = "update_admins" /\ sender' \in admins /\ mutable = <<TRUE>> /\ AllValid(input'))
            => (result' = "Ok" /\ admins' = Range(input'))
       /\ (phase = "live" /\ admins = {})
            => /\ admins' = {}
               /\ mutable' = mutable
               /\ op' \in {"freeze", "update_admins", "execute"} => result' = "Unauthorized"
      ]_vars

\* a former admin has been refused on a contract whose admin set was emptied
C19_Witness ==
    /\ op = "update_admins" /\ result = "Unauthorized"
    /\ old_admins = {} /\ admins = {}
    /\ sender \in ever_admins
    /\ old_mutable = <<TRUE>> /\ AllValid(input)
====
